---- MODULE Spec2Model ----
(***************************************************************************)
(* Model of checks/reference_objects.py: process_pkg_for_references (the   *)
(* per-file extractor with its structured and regex fallback paths) and    *)
(* check_reference_objects (the os.walk driver).                           *)
(*                                                                         *)
(* Text is modelled at the level of chunks: a Python str is a sequence of  *)
(* chunks ("My","Object" is the tag MyObject), so that endswith, lower()   *)
(* / re.IGNORECASE and strip() are computed rather than assumed.  A file's *)
(* content is a sequence of markup tokens (start tags with their          *)
(* attributes in textual order, end tags, character data).                 *)
(***************************************************************************)
EXTENDS Integers, Sequences, FiniteSets, TLC

\* ------------------------------------------------------------------ bounds
MaxSnips == 2       \* elements concatenated into one file's content
MaxFiles == 3       \* files yielded by the walk in the multi-file inputs

\* ----------------------------------------------------------- str helpers
Last(s) == s[Len(s)]

\* str.lower() / re.IGNORECASE on one chunk
LowerChunk(c) ==
    CASE c = "Object"    -> "object"
      [] c = "Type"      -> "type"
      [] c = "Reference" -> "reference"
      [] c = "My"        -> "my"
      [] c = "Sub"       -> "sub"
      [] c = "X"         -> "x"
      [] c = "A"         -> "a"
      [] c = "B"         -> "b"
      [] c = "P"         -> "p"
      [] c = "Lib"       -> "lib"
      [] c = "Root"      -> "root"
      [] c = "Item"      -> "item"
      [] OTHER           -> c

Lower(s) == [i \in 1..Len(s) |-> LowerChunk(s[i])]

IsSpace(c) == c = " "

\* str.strip(): drop leading and trailing whitespace
RECURSIVE LStrip(_)
LStrip(s) == IF s # <<>> /\ IsSpace(Head(s)) THEN LStrip(Tail(s)) ELSE s

RECURSIVE RStrip(_)
RStrip(s) ==
    IF s # <<>> /\ IsSpace(Last(s)) THEN RStrip(SubSeq(s, 1, Len(s) - 1)) ELSE s

Strip(s) == RStrip(LStrip(s))

\* str.endswith(suffix) for a one-chunk suffix
EndsWith(s, suffix) == s # <<>> /\ Last(s) = suffix

\* ---------------------------------------------------------------- tokens
Attr(n, v)  == [n |-> n, v |-> v]
Open(n, as) == [k |-> "open",  name |-> n,    attrs |-> as,   text |-> <<>>]
Close(n)    == [k |-> "close", name |-> n,    attrs |-> <<>>, text |-> <<>>]
Text(t)     == [k |-> "text",  name |-> <<>>, attrs |-> <<>>, text |-> t]

TypeA     == Attr(<<"Type">>, <<"A">>)
TypeB     == Attr(<<"Type">>, <<"B">>)
RefTrue   == Attr(<<"Reference">>, <<"true">>)
RefFalse  == Attr(<<"Reference">>, <<"false">>)
Obj       == <<"Object">>

\* <Object Type="A" Reference="true">x</Object>
SnipFwd == << Open(Obj, <<TypeA, RefTrue>>), Text(<<"x">>), Close(Obj) >>
\* <Object Reference="true" Type="A"> x </Object>
SnipRev == << Open(Obj, <<RefTrue, TypeA>>), Text(<<" ", "x", " ">>), Close(Obj) >>
\* <Object Reference="true" Type="B">y</Object>
SnipRevB == << Open(Obj, <<RefTrue, TypeB>>), Text(<<"y">>), Close(Obj) >>
\* <Object Reference="true">x</Object>
SnipNoType == << Open(Obj, <<RefTrue>>), Text(<<"x">>), Close(Obj) >>
\* <Object Type="A" Reference="false">x</Object>
SnipRefFalse == << Open(Obj, <<TypeA, RefFalse>>), Text(<<"x">>), Close(Obj) >>
\* <Object Type="A" XReference="true">x</Object>
SnipSuffix ==
    << Open(Obj, <<TypeA, Attr(<<"X", "Reference">>, <<"true">>)>>),
       Text(<<"x">>), Close(Obj) >>
\* <Object Type="A" Reference="true" Type="A">x</Object>
SnipBoth == << Open(Obj, <<TypeA, RefTrue, TypeA>>), Text(<<"x">>), Close(Obj) >>
\* <Object Type="Lib" Reference="true">bar.lib<Object>
SnipUnclosed ==
    << Open(Obj, <<Attr(<<"Type">>, <<"Lib">>), RefTrue>>),
       Text(<<"bar.lib">>), Open(Obj, <<>>) >>
\* <Object Type="A" Reference="true"> </Object>
SnipBlank == << Open(Obj, <<TypeA, RefTrue>>), Text(<<" ">>), Close(Obj) >>
\* <MyObject Type="B" Reference="true">y</MyObject>
SnipPrefixed ==
    << Open(<<"My", "Object">>, <<TypeB, RefTrue>>), Text(<<"y">>),
       Close(<<"My", "Object">>) >>
\* <object type="A" reference="true">x</object>
SnipLower ==
    << Open(<<"object">>,
            <<Attr(<<"type">>, <<"A">>), Attr(<<"reference">>, <<"true">>)>>),
       Text(<<"x">>), Close(<<"object">>) >>
\* <Object SubType="A" Reference="true">x</Object>
SnipSubType ==
    << Open(Obj, <<Attr(<<"Sub", "Type">>, <<"A">>), RefTrue>>),
       Text(<<"x">>), Close(Obj) >>
\* <Object Type="A" Reference="true">x<Object Reference="true" Type="B">y</Object></Object>
SnipNested ==
    << Open(Obj, <<TypeA, RefTrue>>), Text(<<"x">>),
       Open(Obj, <<RefTrue, TypeB>>), Text(<<"y">>), Close(Obj), Close(Obj) >>
\* <Object Reference="true"><Item></Item>t</Object>
SnipTail ==
    << Open(Obj, <<RefTrue>>), Open(<<"Item">>, <<>>), Close(<<"Item">>),
       Text(<<"t">>), Close(Obj) >>

Snippets ==
    { SnipFwd, SnipRev, SnipRevB, SnipNoType, SnipRefFalse, SnipSuffix,
      SnipBoth, SnipUnclosed, SnipBlank, SnipPrefixed, SnipLower,
      SnipSubType, SnipNested, SnipTail }

RECURSIVE Flatten(_)
Flatten(ss) == IF ss = <<>> THEN <<>> ELSE Head(ss) \o Flatten(Tail(ss))

SnipSeqs == UNION { [1..n -> Snippets] : n \in 0..MaxSnips }

\* the elements as they stand, inside <Root>..</Root>, or inside
\* <MyObject Reference="true" Type="P">p..</MyObject>
Wrap(w, body) ==
    CASE w = "none" -> body
      [] w = "root" -> <<Open(<<"Root">>, <<>>)>> \o body \o <<Close(<<"Root">>)>>
      [] w = "parent" ->
            << Open(<<"My", "Object">>, <<RefTrue, Attr(<<"Type">>, <<"P">>)>>),
               Text(<<"p">>) >> \o body \o <<Close(<<"My", "Object">>)>>

Wrappers == {"none", "root", "parent"}

Contents == { Wrap(w, Flatten(ss)) : w \in Wrappers, ss \in SnipSeqs }

\* -------------------------------------------------- ET.fromstring(content)
\* One node per element, numbered in the order the start tags are read.
\* attrib keeps the attributes; text is the character data before the first
\* child (None and '' are both <<>>); character data after a child is that
\* child's tail and is not part of text.
Node(t, i) == [tag |-> t.name, attrib |-> t.attrs, text |-> <<>>,
               children |-> <<>>, at |-> i]

DuplicateAttr(as) ==
    \E a, b \in 1..Len(as) : a # b /\ as[a].n = as[b].n

ParseError == [ok |-> FALSE, nodes |-> <<>>]

RECURSIVE ParseFrom(_, _, _, _, _)
ParseFrom(toks, i, stack, nodes, rootDone) ==
    IF i > Len(toks)
    THEN IF stack = <<>> /\ rootDone THEN [ok |-> TRUE, nodes |-> nodes]
                                    ELSE ParseError     \* no element found
    ELSE LET t == toks[i] IN
      CASE t.k = "text" ->
             IF stack = <<>>
             THEN IF Strip(t.text) = <<>>
                  THEN ParseFrom(toks, i + 1, stack, nodes, rootDone)
                  ELSE ParseError                      \* text outside the root
             ELSE LET top == Last(stack) IN
                  IF nodes[top].children = <<>>
                  THEN ParseFrom(toks, i + 1, stack,
                         [nodes EXCEPT ![top].text = @ \o t.text], rootDone)
                  ELSE ParseFrom(toks, i + 1, stack, nodes, rootDone)  \* a tail
        [] t.k = "open" ->
             IF (stack = <<>> /\ rootDone) \/ DuplicateAttr(t.attrs)
             THEN ParseError           \* junk after root / duplicate attribute
             ELSE LET id == Len(nodes) + 1
                      added == Append(nodes, Node(t, i))
                      linked == IF stack = <<>> THEN added
                                ELSE [added EXCEPT ![Last(stack)].children =
                                                       Append(@, id)]
                  IN ParseFrom(toks, i + 1, Append(stack, id), linked, rootDone)
        [] t.k = "close" ->
             IF stack = <<>> \/ nodes[Last(stack)].tag # t.name
             THEN ParseError                                \* mismatched tag
             ELSE ParseFrom(toks, i + 1, SubSeq(stack, 1, Len(stack) - 1),
                            nodes, Len(stack) = 1)

fromstring(toks) == ParseFrom(toks, 1, <<>>, <<>>, FALSE)

\* a traversal that yields an element after its children
RECURSIVE IterSeqPostOrder(_, _)
RECURSIVE iterPostOrder(_, _)
IterSeqPostOrder(nodes, ids) ==
    IF ids = <<>> THEN <<>>
    ELSE iterPostOrder(nodes, Head(ids)) \o IterSeqPostOrder(nodes, Tail(ids))
iterPostOrder(nodes, id) == IterSeqPostOrder(nodes, nodes[id].children) \o <<id>>

\* Element.iter(): the element, then each child's iter() in order
RECURSIVE IterSeq(_, _)
RECURSIVE iter(_, _)
IterSeq(nodes, ids) ==
    IF ids = <<>> THEN <<>>
    ELSE iter(nodes, Head(ids)) \o IterSeq(nodes, Tail(ids))
iter(nodes, id) == <<id>> \o IterSeq(nodes, nodes[id].children)

\* Element.get(key, default)
get(attrib, key, default) ==
    IF \E a \in 1..Len(attrib) : attrib[a].n = key
    THEN attrib[CHOOSE a \in 1..Len(attrib) : attrib[a].n = key].v
    ELSE default

\* ------------------------------------------------------------ re.findall
SetMax(S) == CHOOSE m \in S : \A x \in S : x <= m

\* Type="([^"]*)" and Reference="true" under re.IGNORECASE: neither is
\* anchored at the start of the attribute name
IsTypeText(a) == a.n # <<>> /\ LowerChunk(Last(a.n)) = "type"
IsRefText(a)  == a.n # <<>> /\ LowerChunk(Last(a.n)) = "reference"
                            /\ Lower(a.v) = <<"true">>

\* positions of the attribute captured as group 1: [^>]* is greedy, so the
\* rightmost Type="..." that lets the rest of the pattern match
ForwardTypes(as) ==
    { a \in 1..Len(as) : IsTypeText(as[a])
                         /\ \E b \in (a + 1)..Len(as) : IsRefText(as[b]) }
ReverseTypes(as) ==
    { a \in 1..Len(as) : IsTypeText(as[a])
                         /\ \E b \in 1..(a - 1) : IsRefText(as[b]) }

\* first token at or after i that is not character data ([^<]* stops at '<')
RECURSIVE NextTag(_, _)
NextTag(toks, i) ==
    IF i <= Len(toks) /\ toks[i].k = "text" THEN NextTag(toks, i + 1) ELSE i

RECURSIVE TextRun(_, _, _)
TextRun(toks, i, j) ==
    IF i >= j THEN <<>> ELSE toks[i].text \o TextRun(toks, i + 1, j)

\* a pattern that stops at the next '<' without asking for </Object>
AnyTagCloses(toks, j) == j <= Len(toks)

\* </Object> under re.IGNORECASE
ClosesObject(toks, j) ==
    j <= Len(toks) /\ toks[j].k = "close" /\ Lower(toks[j].name) = <<"object">>

\* <Object[^>]* ... [^>]*>([^<]*)</Object> matched at the start tag i
MatchesAt(toks, i, types) ==
    /\ toks[i].k = "open"
    /\ toks[i].name # <<>> /\ LowerChunk(Head(toks[i].name)) = "object"
    /\ types # {}
    /\ ClosesObject(toks, NextTag(toks, i + 1))

pattern(toks, i)         == MatchesAt(toks, i, ForwardTypes(toks[i].attrs))
pattern_reverse(toks, i) == MatchesAt(toks, i, ReverseTypes(toks[i].attrs))

\* the (Type, text) groups of one match; at is the start tag matched
Groups(toks, i, types) ==
    [object_type |-> toks[i].attrs[SetMax(types)].v,
     object_name |-> TextRun(toks, i + 1, NextTag(toks, i + 1)),
     at |-> i]

RECURSIVE findall(_, _, _)
findall(toks, i, rev) ==
    IF i > Len(toks) THEN <<>>
    ELSE IF rev /\ pattern_reverse(toks, i)
         THEN <<Groups(toks, i, ReverseTypes(toks[i].attrs))>>
              \o findall(toks, NextTag(toks, i + 1) + 1, rev)
    ELSE IF ~rev /\ pattern(toks, i)
         THEN <<Groups(toks, i, ForwardTypes(toks[i].attrs))>>
              \o findall(toks, NextTag(toks, i + 1) + 1, rev)
    ELSE findall(toks, i + 1, rev)

\* ------------------------------------------------------- ReferenceObject
ReferenceObject(name, type, path) ==
    [object_name |-> name, object_type |-> type, pkg_file_path |-> path,
     line_number |-> 0]

\* ------------------------------------------------------------- the inputs
PkgName == <<"a", ".pkg">>
File(n, r, c) == [name |-> n, readable |-> r, content |-> c]
Dir(r, fs)    == [root |-> r, files |-> fs]

\* one readable .pkg file holding any of the contents
DeepWalks == { <<Dir("proj", <<File(PkgName, TRUE, c)>>)>> : c \in Contents }

\* two records on the structured path
GoodPkg == File(<<"good", ".pkg">>, TRUE,
                Wrap("root", SnipFwd \o SnipRevB))
\* two roots: malformed, the fallback finds the reverse match and the forward one
MalPkg  == File(<<"mal", ".pkg">>, TRUE, SnipRevB \o SnipFwd)
\* cannot be opened (a dangling link, no read permission)
BadPkg  == File(<<"bad", ".pkg">>, FALSE, <<>>)
\* not a .pkg file, though it ends with one as an infix
BakFile == File(<<"old", ".pkg", ".bak">>, TRUE, SnipFwd)

WalkFiles == { GoodPkg, MalPkg, BadPkg, BakFile }

FileSeqs == UNION { [1..n -> WalkFiles] : n \in 0..MaxFiles }

\* os.walk yields the root directory, then its subdirectory
\* the entries of one directory have distinct names
DistinctNames(fs) ==
    \A i, j \in 1..Len(fs) : fs[i].name = fs[j].name => i = j

WideWalks ==
    UNION { { w \in { <<Dir("proj", [i \in 1..s |-> fs[i]]),
                        Dir("proj/sub", [i \in 1..(Len(fs) - s) |-> fs[s + i]])>> :
                       s \in 0..Len(fs) } :
              \A d \in 1..2 : DistinctNames(w[d].files) } : fs \in FileSeqs }

Walks == DeepWalks \cup WideWalks

\* -------------------------------------------------------------- the state
VARIABLES
    walk,            \* what os.walk(project_path) yields: (root, files) per directory
    di, fi,          \* position of the two for loops of check_reference_objects
    all_references,  \* check_reference_objects: the aggregated list
    pc,              \* where control is
    file_path,       \* process_pkg_for_references: its argument
    content,         \* f.read()
    results,         \* the list being built and returned
    elems,           \* root.iter()
    matches,         \* re.findall(pattern, ...) / re.findall(pattern_reverse, ...)
    k,               \* position of the running for loop
    warnings,        \* the paths printed by line 94, in order
    origins,         \* history: the start tag each record of results came from
    stage,           \* history: "none", "structured" or "fallback"
    failed,          \* history: an exception was raised inside the try block
    calls            \* history: one entry per process_pkg_for_references call

vars == << walk, di, fi, all_references, pc, file_path, content, results, elems,
           matches, k, warnings, origins, stage, failed, calls >>

locals == << file_path, content, results, elems, matches, k, origins, stage, failed >>

NoPath == <<"", <<>>>>

Init ==
    /\ walk \in Walks
    /\ di = 1 /\ fi = 1
    /\ all_references = <<>>
    /\ pc = "walk"
    /\ file_path = NoPath
    /\ content = <<>>
    /\ results = <<>>
    /\ elems = <<>>
    /\ matches = <<>>
    /\ k = 1
    /\ warnings = <<>>
    /\ origins = <<>>
    /\ stage = "none"
    /\ failed = FALSE
    /\ calls = <<>>

InDir  == di <= Len(walk)
InFile == InDir /\ fi <= Len(walk[di].files)
CurFile == walk[di].files[fi]

\* os.path.join(root, file)
join(root, file) == <<root, file>>

\* ------------------------------------------- check_reference_objects
\* line 114 false: the file is passed over
WalkSkip ==
    /\ pc = "walk" /\ InFile
    /\ ~EndsWith(CurFile.name, ".pkg")
    /\ fi' = fi + 1
    /\ UNCHANGED << walk, di, all_references, pc, locals, warnings, calls >>

\* lines 114-116: the call of process_pkg_for_references, down to line 25
WalkCall ==
    /\ pc = "walk" /\ InFile
    /\ EndsWith(CurFile.name, ".pkg")
    /\ file_path' = join(walk[di].root, CurFile.name)
    /\ results' = <<>>
    /\ pc' = "open"
    /\ UNCHANGED << walk, di, fi, all_references, content, elems, matches, k,
                    warnings, origins, stage, failed, calls >>

\* line 112: the next (root, files) of os.walk
WalkNextDir ==
    /\ pc = "walk" /\ InDir /\ ~InFile
    /\ di' = di + 1 /\ fi' = 1
    /\ UNCHANGED << walk, all_references, pc, locals, warnings, calls >>

\* line 119
WalkReturn ==
    /\ pc = "walk" /\ ~InDir
    /\ pc' = "returned"
    /\ UNCHANGED << walk, di, fi, all_references, locals, warnings, calls >>

\* ---------------------------------------- process_pkg_for_references
\* lines 28-29: open and read; an OSError goes to line 92
OpenRead ==
    /\ pc = "open"
    /\ IF CurFile.readable
       THEN /\ content' = CurFile.content
            /\ pc' = "parse"
            /\ UNCHANGED failed
       ELSE /\ pc' = "except"
            /\ failed' = TRUE
            /\ UNCHANGED content
    /\ UNCHANGED << walk, di, fi, all_references, file_path, results, elems,
                    matches, k, warnings, origins, stage, calls >>

\* line 33, and line 36 creating the iterator; ParseError goes to line 52
Parse ==
    /\ pc = "parse"
    /\ LET r == fromstring(content) IN
       IF r.ok
       THEN /\ elems' = [e \in 1..Len(r.nodes) |-> r.nodes[iter(r.nodes, 1)[e]]]
            /\ stage' = "structured"
            /\ pc' = "iter"
       ELSE /\ elems' = <<>>
            /\ stage' = "fallback"
            /\ pc' = "findall"
    /\ k' = 1
    /\ UNCHANGED << walk, di, fi, all_references, file_path, content, results,
                    matches, warnings, origins, failed, calls >>

\* lines 37-50 for one element
StructuredRecords(obj_elem, path) ==
    IF EndsWith(obj_elem.tag, "Object") \/ obj_elem.tag = <<"Object">>
    THEN LET reference_attr == get(obj_elem.attrib, <<"Reference">>, <<"None">>) IN
         IF reference_attr = <<"true">>
         THEN LET object_type == get(obj_elem.attrib, <<"Type">>, <<"Unknown">>)
                  object_name == IF obj_elem.text # <<>> THEN Strip(obj_elem.text)
                                                         ELSE <<>>
              IN IF object_name # <<>>
                 THEN <<ReferenceObject(object_name, object_type, path)>>
                 ELSE <<>>
         ELSE <<>>
    ELSE <<>>

\* one pass of the loop of line 36
IterStep ==
    /\ pc = "iter" /\ k <= Len(elems)
    /\ LET new == StructuredRecords(elems[k], file_path) IN
        /\ results' = results \o new
        /\ origins' = origins \o [i \in 1..Len(new) |-> elems[k].at]
    /\ k' = k + 1
    /\ UNCHANGED << walk, di, fi, all_references, pc, file_path, content, elems,
                    matches, warnings, stage, failed, calls >>

\* the patterns applied after a successful traversal as well
IterDoneThenFallback ==
    /\ pc = "iter" /\ k > Len(elems)
    /\ pc' = "findall"
    /\ UNCHANGED << walk, di, fi, all_references, locals, warnings, calls >>

\* the loop of line 36 is exhausted: on to line 96
IterDone ==
    /\ pc = "iter" /\ k > Len(elems)
    /\ pc' = "return"
    /\ UNCHANGED << walk, di, fi, all_references, locals, warnings, calls >>

\* lines 57-58
FindallForward ==
    /\ pc = "findall"
    /\ matches' = findall(content, 1, FALSE)
    /\ k' = 1
    /\ pc' = "fwd"
    /\ UNCHANGED << walk, di, fi, all_references, file_path, content, results,
                    elems, warnings, origins, stage, failed, calls >>

\* a forward loop body without the test of line 62
ForwardRecordsUnchecked(m, path) ==
    <<ReferenceObject(Strip(m.object_name), m.object_type, path)>>

\* lines 61-68 for one match
ForwardRecords(m, path) ==
    LET object_name == Strip(m.object_name) IN
    IF object_name # <<>>
    THEN <<ReferenceObject(object_name, m.object_type, path)>>
    ELSE <<>>

\* a forward loop that skips a match already in results
ForwardStepDedup ==
    /\ pc = "fwd" /\ k <= Len(matches)
    /\ LET new == ForwardRecords(matches[k], file_path)
           kept == IF new # <<>> /\ new[1] \in { results[r] : r \in 1..Len(results) }
                   THEN <<>> ELSE new
       IN
        /\ results' = results \o kept
        /\ origins' = origins \o [i \in 1..Len(kept) |-> matches[k].at]
    /\ k' = k + 1
    /\ UNCHANGED << walk, di, fi, all_references, pc, file_path, content, elems,
                    matches, warnings, stage, failed, calls >>

\* one pass of the loop of line 60
ForwardStep ==
    /\ pc = "fwd" /\ k <= Len(matches)
    /\ LET new == ForwardRecords(matches[k], file_path) IN
        /\ results' = results \o new
        /\ origins' = origins \o [i \in 1..Len(new) |-> matches[k].at]
    /\ k' = k + 1
    /\ UNCHANGED << walk, di, fi, all_references, pc, file_path, content, elems,
                    matches, warnings, stage, failed, calls >>

\* lines 71-72, once the loop of line 60 is exhausted
FindallReverse ==
    /\ pc = "fwd" /\ k > Len(matches)
    /\ matches' = findall(content, 1, TRUE)
    /\ k' = 1
    /\ pc' = "rev"
    /\ UNCHANGED << walk, di, fi, all_references, file_path, content, results,
                    elems, warnings, origins, stage, failed, calls >>

\* a reverse loop body without the test of lines 78-84
ReverseRecordsNoDedup(m, path, sofar) ==
    LET object_name == Strip(m.object_name) IN
    IF object_name # <<>>
    THEN <<ReferenceObject(object_name, m.object_type, path)>>
    ELSE <<>>

\* lines 75-90 for one match, given the list built so far
ReverseRecords(m, path, sofar) ==
    LET object_name == Strip(m.object_name) IN
    IF object_name # <<>>
    THEN LET existing == \E r \in 1..Len(sofar) :
                            /\ sofar[r].object_name = object_name
                            /\ sofar[r].object_type = m.object_type
                            /\ sofar[r].pkg_file_path = path
         IN IF ~existing
            THEN <<ReferenceObject(object_name, m.object_type, path)>>
            ELSE <<>>
    ELSE <<>>

\* one pass of the loop of line 74
ReverseStep ==
    /\ pc = "rev" /\ k <= Len(matches)
    /\ LET new == ReverseRecords(matches[k], file_path, results) IN
        /\ results' = results \o new
        /\ origins' = origins \o [i \in 1..Len(new) |-> matches[k].at]
    /\ k' = k + 1
    /\ UNCHANGED << walk, di, fi, all_references, pc, file_path, content, elems,
                    matches, warnings, stage, failed, calls >>

\* the loop of line 74 is exhausted: on to line 96
ReverseDone ==
    /\ pc = "rev" /\ k > Len(matches)
    /\ pc' = "return"
    /\ UNCHANGED << walk, di, fi, all_references, locals, warnings, calls >>

\* Any statement of lines 33-90 may raise an exception that is not a
\* ParseError (a MemoryError while a list, a string or a record is
\* allocated): control goes to line 92 with results as it stands.
TryBlock == {"parse", "iter", "findall", "fwd", "rev"}

Fault ==
    /\ pc \in TryBlock
    /\ pc' = "except"
    /\ failed' = TRUE
    /\ UNCHANGED << walk, di, fi, all_references, file_path, content, results,
                    elems, matches, k, warnings, origins, stage, calls >>

\* what the handler of lines 92-94 leaves in results
except_results(rs) == rs

\* lines 92-94: the warning is printed
Except ==
    /\ pc = "except"
    /\ warnings' = Append(warnings, file_path)
    /\ results' = except_results(results)
    /\ pc' = "return"
    /\ UNCHANGED << walk, di, fi, all_references, file_path, content, elems,
                    matches, k, origins, stage, failed, calls >>

\* line 96 and line 117: the list is returned and appended to all_references
Return ==
    /\ pc = "return"
    /\ all_references' = all_references \o results
    /\ calls' = Append(calls, [file_path |-> file_path, content |-> content,
                               returned |-> results, failed |-> failed,
                               stage |-> stage])
    /\ file_path' = NoPath /\ content' = <<>> /\ results' = <<>>
    /\ elems' = <<>> /\ matches' = <<>> /\ k' = 1 /\ origins' = <<>>
    /\ stage' = "none" /\ failed' = FALSE
    /\ fi' = fi + 1
    /\ pc' = "walk"
    /\ UNCHANGED << walk, di, warnings >>

Next ==
    \/ WalkSkip \/ WalkCall \/ WalkNextDir \/ WalkReturn
    \/ OpenRead \/ Parse \/ IterStep \/ IterDone
    \/ FindallForward \/ ForwardStep \/ FindallReverse \/ ReverseStep \/ ReverseDone
    \/ Fault \/ Except \/ Return

Spec == Init /\ [][Next]_vars

\* ===================================================== properties
\* the call is about to return results (line 96)
AtReturn  == pc = "return"
\* ... and no exception was raised in the try block
Completed == pc = "return" /\ ~failed

WellFormed(toks) == fromstring(toks).ok

IsBlank(t) == \A i \in 1..Len(t) : IsSpace(t[i])

Count(seq, x) == Cardinality({ i \in 1..Len(seq) : seq[i] = x })

Range(seq) == { seq[i] : i \in 1..Len(seq) }

\* the character data standing between the start tag i and the next tag
InlineText(toks, i) == TextRun(toks, i + 1, NextTag(toks, i + 1))

\* attribute lookups on the start tag as written
HasAttr(t, n)       == \E a \in 1..Len(t.attrs) : t.attrs[a].n = n
HasAttrValue(t, n, v) ==
    \E a \in 1..Len(t.attrs) : t.attrs[a].n = n /\ t.attrs[a].v = v
HasAttrNoCase(t, n) == \E a \in 1..Len(t.attrs) : Lower(t.attrs[a].n) = Lower(n)

\* ---- C1
\* C1: process_pkg_for_references never raises to its caller, and whenever a
\* failure occurred while the file was processed (also after records were
\* appended) the list it returns is empty and exactly one warning naming the
\* file was emitted.
C1_FailureReturnsEmptyAndWarnsOnce ==
    /\ pc # "raise"
    /\ (AtReturn /\ failed) =>
          (results = <<>> /\ Count(warnings, file_path) = 1)

\* ---- C2
\* the start tags that qualify on the structured path, described on the
\* document text: tag is or ends with Object, Reference is exactly "true",
\* the text before the first child is not blank
Qualifies(toks, i) ==
    /\ toks[i].k = "open"
    /\ (toks[i].name = <<"Object">> \/ EndsWith(toks[i].name, "Object"))
    /\ HasAttrValue(toks[i], <<"Reference">>, <<"true">>)
    /\ ~IsBlank(InlineText(toks, i))

TypeOrUnknown(t) ==
    IF HasAttr(t, <<"Type">>)
    THEN t.attrs[CHOOSE a \in 1..Len(t.attrs) : t.attrs[a].n = <<"Type">>].v
    ELSE <<"Unknown">>

RECURSIVE ExpectedStructured(_, _, _)
ExpectedStructured(toks, i, path) ==
    IF i > Len(toks) THEN <<>>
    ELSE (IF Qualifies(toks, i)
          THEN <<ReferenceObject(Strip(InlineText(toks, i)),
                                 TypeOrUnknown(toks[i]), path)>>
          ELSE <<>>) \o ExpectedStructured(toks, i + 1, path)

\* C2: for a well-formed document with N qualifying elements the call
\* returns exactly N records, in document order (the order of the start
\* tags), each with the trimmed text and the Type value or "Unknown";
\* identical elements yield one record each.  The direct text of an element
\* is the text before its first child (ElementTree's .text).
C2_StructuredRecordsInDocumentOrder ==
    (Completed /\ WellFormed(content)) =>
        /\ results = ExpectedStructured(content, 1, file_path)
        /\ Len(results) =
             Cardinality({ i \in 1..Len(content) : Qualifies(content, i) })

\* a parent record followed by two identical children, typed "Unknown"
C2_Witness ==
    /\ Completed /\ WellFormed(content)
    /\ Len(results) = 3
    /\ results[1].object_name = <<"p">>
    /\ results[2] = results[3]
    /\ results[2].object_type = <<"Unknown">>

\* ---- C3
\* C3: on both paths no record comes from an element whose Reference
\* attribute is "false" or absent (an attribute named Reference in any
\* letter case is counted as the Reference attribute).
C3_NoRecordWithoutReferenceTrue ==
    \A r \in 1..Len(results) :
        LET t == content[origins[r]] IN
        /\ HasAttrNoCase(t, <<"Reference">>)
        /\ ~HasAttrValue(t, <<"Reference">>, <<"false">>)

\* ---- C4
\* an Object start tag carrying Type and then Reference="true", with text
ForwardElement(toks, i) ==
    /\ toks[i].k = "open" /\ toks[i].name = <<"Object">>
    /\ \E a, b \in 1..Len(toks[i].attrs) :
          /\ a < b
          /\ toks[i].attrs[a].n = <<"Type">>
          /\ toks[i].attrs[b] = RefTrue
    /\ ~IsBlank(InlineText(toks, i))

\* the text of the start tag i is followed by another tag / by </Object>
FollowedByTag(toks, i) == NextTag(toks, i + 1) <= Len(toks)
FollowedByEndTag(toks, i) ==
    /\ FollowedByTag(toks, i)
    /\ toks[NextTag(toks, i + 1)].k = "close"
    /\ Lower(toks[NextTag(toks, i + 1)].name) = <<"object">>

\* C4: on the fallback path an Object element with Type then
\* Reference="true" whose text runs up to the next '<' produces a record even
\* without a closing </Object>; <Object Type="Lib" Reference="true">bar.lib<Object>
\* yields exactly one record (bar.lib, Lib).
C4_RecordWithoutClosingTag ==
    (Completed /\ stage = "fallback") =>
        /\ \A i \in 1..Len(content) :
              (ForwardElement(content, i) /\ FollowedByTag(content, i))
                  => i \in Range(origins)
        /\ content = SnipUnclosed =>
              results = <<ReferenceObject(<<"bar.lib">>, <<"Lib">>, file_path)>>

\* C4 as amended: on the fallback path such an element produces a record if
\* and only if its text is directly followed by the closing tag </Object>
\* (in any letter case); every fallback record comes from a start tag closed
\* that way, and the example content, which ends in <Object>, yields none.
C4_RecordNeedsClosingTag ==
    (Completed /\ stage = "fallback") =>
        /\ \A i \in 1..Len(content) :
              ForwardElement(content, i) =>
                  (i \in Range(origins) <=> FollowedByEndTag(content, i))
        /\ \A r \in 1..Len(origins) : FollowedByEndTag(content, origins[r])
        /\ content = SnipUnclosed => results = <<>>

\* the example of the specification has been processed by the fallback
C4_Witness ==
    /\ Completed /\ stage = "fallback"
    /\ content = SnipUnclosed
    /\ results = <<>>

\* ---- C5
\* the (object_name, object_type) pair a start tag yields under a pattern
PairOf(toks, i, types) ==
    <<Strip(InlineText(toks, i)), toks[i].attrs[SetMax(types)].v>>

\* the start tag i is matched by the forward and by the reverse pattern,
\* with the same Type value and a name
MatchedByBoth(toks, i) ==
    /\ pattern(toks, i) /\ pattern_reverse(toks, i)
    /\ ~IsBlank(InlineText(toks, i))
    /\ PairOf(toks, i, ForwardTypes(toks[i].attrs))
         = PairOf(toks, i, ReverseTypes(toks[i].attrs))

RecordsOfPair(rs, pair) ==
    { r \in 1..Len(rs) : <<rs[r].object_name, rs[r].object_type>> = pair }

\* the start tags the forward pattern matches with that pair
ForwardMatchesOfPair(toks, pair) ==
    { j \in 1..Len(toks) :
        /\ pattern(toks, j)
        /\ PairOf(toks, j, ForwardTypes(toks[j].attrs)) = pair }

\* two equivalent elements, each matched by both patterns
TwoEquivalent(toks, i, j) ==
    /\ i < j
    /\ MatchedByBoth(toks, i) /\ MatchedByBoth(toks, j)
    /\ PairOf(toks, i, ForwardTypes(toks[i].attrs))
         = PairOf(toks, j, ForwardTypes(toks[j].attrs))

\* C5: malformed content with two equivalent Object elements, each
\* matchable by the forward and the reverse pattern, gives exactly one
\* record for that (object_name, object_type) pair.
C5_OneRecordForEquivalentElements ==
    (Completed /\ stage = "fallback") =>
        \A i, j \in 1..Len(content) :
            TwoEquivalent(content, i, j) =>
                Cardinality(RecordsOfPair(results,
                    PairOf(content, i, ForwardTypes(content[i].attrs)))) = 1

\* C5 as amended: for such elements the result holds one record of the pair
\* per forward match of it (two for two elements): forward matches are not
\* deduplicated among themselves, and every reverse match of the pair is
\* skipped as already present.
C5_OneRecordPerForwardMatch ==
    (Completed /\ stage = "fallback") =>
        \A i \in 1..Len(content) :
            MatchedByBoth(content, i) =>
                LET pair == PairOf(content, i, ForwardTypes(content[i].attrs)) IN
                /\ Cardinality(RecordsOfPair(results, pair))
                     = Cardinality(ForwardMatchesOfPair(content, pair))
                /\ \A r \in RecordsOfPair(results, pair) :
                      pattern(content, origins[r])

\* two equivalent elements matched by both patterns gave two records
C5_Witness ==
    /\ Completed /\ stage = "fallback"
    /\ \E i, j \in 1..Len(content) : TwoEquivalent(content, i, j)
    /\ Len(results) = 2
    /\ results[1] = results[2]

\* ---- C6
\* an element that would give a record but for its empty or blank text
BlankCandidate(toks, i) ==
    /\ toks[i].k = "open"
    /\ IsBlank(InlineText(toks, i))
    /\ \/ /\ stage = "structured"
          /\ EndsWith(toks[i].name, "Object")
          /\ HasAttrValue(toks[i], <<"Reference">>, <<"true">>)
       \/ /\ stage = "fallback"
          /\ (pattern(toks, i) \/ pattern_reverse(toks, i))

\* C6: every record of the list process_pkg_for_references builds, and of
\* the list check_reference_objects returns, has an object_name that is
\* neither empty nor blank, on the structured path and under both fallback
\* patterns; a qualifying element with empty or blank text yields no record.
C6_NamesNeverBlank ==
    /\ \A r \in 1..Len(results) :
          /\ results[r].object_name # <<>>
          /\ ~IsBlank(results[r].object_name)
          /\ ~BlankCandidate(content, origins[r])
    /\ \A r \in 1..Len(all_references) :
          /\ all_references[r].object_name # <<>>
          /\ ~IsBlank(all_references[r].object_name)

\* a blank element was passed over on the fallback path while another
\* element gave a record that reached the aggregated list
C6_Witness ==
    /\ pc = "returned"
    /\ all_references # <<>>
    /\ \E c \in 1..Len(calls) :
          /\ calls[c].stage = "fallback" /\ ~calls[c].failed
          /\ Len(calls[c].returned) = 1
          /\ \E i \in 1..Len(calls[c].content) :
                /\ pattern(calls[c].content, i)
                /\ IsBlank(InlineText(calls[c].content, i))

\* ---- C7
\* the paths of the .pkg files in the order os.walk lists them
RECURSIVE PkgOfDir(_, _)
PkgOfDir(root, fs) ==
    IF fs = <<>> THEN <<>>
    ELSE (IF EndsWith(Head(fs).name, ".pkg") THEN <<<<root, Head(fs).name>>>>
          ELSE <<>>) \o PkgOfDir(root, Tail(fs))

RECURSIVE PkgPaths(_)
PkgPaths(w) ==
    IF w = <<>> THEN <<>>
    ELSE PkgOfDir(Head(w).root, Head(w).files) \o PkgPaths(Tail(w))

RECURSIVE ConcatReturned(_)
ConcatReturned(cs) ==
    IF cs = <<>> THEN <<>> ELSE Head(cs).returned \o ConcatReturned(Tail(cs))

\* ---- C10 (used by C7 as well): the fallback result in closed form
RECURSIVE NamedRecords(_, _)
NamedRecords(ms, path) ==
    IF ms = <<>> THEN <<>>
    ELSE (IF IsBlank(Head(ms).object_name) THEN <<>>
          ELSE <<ReferenceObject(Strip(Head(ms).object_name),
                                 Head(ms).object_type, path)>>)
         \o NamedRecords(Tail(ms), path)

\* the records of rev that equal no record of fwd and no earlier record of rev
RECURSIVE FirstNew(_, _, _)
FirstNew(fwd, rev, i) ==
    IF i > Len(rev) THEN <<>>
    ELSE (IF rev[i] \in Range(fwd) \/ \E j \in 1..(i - 1) : rev[j] = rev[i]
          THEN <<>> ELSE <<rev[i]>>) \o FirstNew(fwd, rev, i + 1)

ExpectedFallback(toks, path) ==
    LET fwd == NamedRecords(findall(toks, 1, FALSE), path)
        rev == NamedRecords(findall(toks, 1, TRUE), path)
    IN fwd \o FirstNew(fwd, rev, 1)

\* what one file yields when nothing fails
Extract(toks, path) ==
    IF WellFormed(toks) THEN ExpectedStructured(toks, 1, path)
                        ELSE ExpectedFallback(toks, path)

\* C7: check_reference_objects returns the concatenation, in traversal
\* order, of the lists of exactly the files whose name ends with '.pkg',
\* each visited once; a file whose processing fails contributes no record
\* and one warning, does not stop the walk, and leaves the other files'
\* records and order as they are.
C7_WalkConcatenatesPkgFiles ==
    pc = "returned" =>
        /\ [c \in 1..Len(calls) |-> calls[c].file_path] = PkgPaths(walk)
        /\ all_references = ConcatReturned(calls)
        /\ \A c \in 1..Len(calls) :
              IF calls[c].failed
              THEN /\ calls[c].returned = <<>>
                   /\ Count(warnings, calls[c].file_path) = 1
              ELSE /\ calls[c].returned
                        = Extract(calls[c].content, calls[c].file_path)
                   /\ Count(warnings, calls[c].file_path) = 0

\* ---- C8
\* C8: the fallback path never produces a record for an element without an
\* explicit Type attribute (an attribute named Type in any letter case is
\* counted as one), and no fallback record has the type "Unknown".
C8_FallbackRecordHasTypeAttribute ==
    stage = "fallback" =>
        \A r \in 1..Len(results) :
            /\ HasAttrNoCase(content[origins[r]], <<"Type">>)
            /\ results[r].object_type # <<"Unknown">>

\* ---- C9
\* C9: the fallback stage runs if and only if the structured parse failed
\* with a ParseError: after a successful parse no pattern is applied, even
\* when the traversal gives no record; after a failed one no element is
\* traversed and every record comes from a pattern match; malformed or empty
\* content reaches the fallback and returns a list without a warning.
C9_FallbackIffParseError ==
    /\ pc \in {"findall", "fwd", "rev"} =>
          (stage = "fallback" /\ ~WellFormed(content))
    /\ pc = "iter" => (stage = "structured" /\ WellFormed(content))
    /\ stage = "structured" => (WellFormed(content) /\ matches = <<>>)
    /\ stage = "fallback" =>
          /\ ~WellFormed(content) /\ elems = <<>>
          /\ \A r \in 1..Len(origins) :
                pattern(content, origins[r]) \/ pattern_reverse(content, origins[r])
    /\ Completed =>
          /\ stage = (IF WellFormed(content) THEN "structured" ELSE "fallback")
          /\ Count(warnings, file_path) = 0

\* a well-formed file whose traversal gave nothing although the forward
\* pattern would have matched one of its elements
C9_Witness ==
    /\ Completed /\ stage = "structured"
    /\ results = <<>> /\ matches = <<>>
    /\ \E i \in 1..Len(content) :
          pattern(content, i) /\ ~IsBlank(InlineText(content, i))

\* ---- C10
\* C10: on the fallback path the result is the named forward matches in
\* order of occurrence, not deduplicated, followed by the named reverse
\* matches in order of occurrence, each kept only if no equal record is
\* already in the list (from the forward pass or earlier in the reverse
\* pass); the result need not be in document order.
C10_ForwardThenNewReverse ==
    (Completed /\ stage = "fallback") =>
        results = ExpectedFallback(content, file_path)

\* a reverse match standing before a forward match in the document comes
\* after it in the result
C10_Witness ==
    /\ Completed /\ stage = "fallback"
    /\ Len(results) = 2
    /\ origins[1] > origins[2]
    /\ pattern(content, origins[1])
    /\ pattern_reverse(content, origins[2])

====
